---- MODULE Spec2Model ----
(***************************************************************************)
(* action-cli (src/src/main.rs): the workflow-command encoder              *)
(* (escape_data, escape_property, issue_command, log_command, issue) and   *)
(* the driver `main`, which maps one parsed directive to one line on       *)
(* standard output.                                                        *)
(*                                                                         *)
(* A text is a sequence of one-character strings.                          *)
(***************************************************************************)
EXTENDS Integers, Sequences, FiniteSets, TLC

VARIABLES
    pc,         \* position of the running call / process
    opt,        \* the arguments of the call (the parsed Opt for main)
    io,         \* calls made to the outside (environment, filesystem, network), with results
    out,        \* the value computed (`out` in main, the return value of a function)
    stdout,     \* the characters written to standard output
    exit_code   \* the process exit status, -1 while running

vars == <<pc, opt, io, out, stdout, exit_code>>

LF == "\n"
CR == "\r"
TAB == "\t"

----------------------------------------------------------------------------
(* Bounds and the input alphabets.                                         *)

\* longest text handed to escape_data / escape_property on their own
MaxLen == 4

\* characters of the texts escaped: every character the escaping mentions
EscChars == {"%", CR, LF, "0", "2", "5", "A", "D", ":", ","}

Texts(chars, n) == UNION {[1..k -> chars] : k \in 0..n}

----------------------------------------------------------------------------
(* Text primitives of the Rust standard library, as the code uses them.    *)

\* whether `pat` occurs in `s` at position i
MatchesAt(s, i, pat) ==
    /\ i + Len(pat) - 1 <= Len(s)
    /\ \A j \in 1..Len(pat) : s[i + j - 1] = pat[j]

Contains(s, pat) == \E i \in 1..Len(s) : MatchesAt(s, i, pat)

\* str::replace: every non-overlapping match of `from`, found left to right,
\* is replaced by `to`; the replacement text is not scanned again.
RECURSIVE replace(_, _, _)
replace(s, from, to) ==
    IF Len(s) < Len(from) THEN s
    ELSE IF MatchesAt(s, 1, from)
         THEN to \o replace(SubSeq(s, Len(from) + 1, Len(s)), from, to)
         ELSE <<Head(s)>> \o replace(Tail(s), from, to)

----------------------------------------------------------------------------
(* The encoder's escaping rules.                                           *)

\* a slip in the order: '%' escaped after CR and LF
escape_data_percent_last(s) ==
    replace(replace(replace(s, <<CR>>, <<"%", "0", "D">>),
                    <<LF>>, <<"%", "0", "A">>),
            <<"%">>, <<"%", "2", "5">>)

escape_data(s) ==
    replace(replace(replace(s, <<"%">>, <<"%", "2", "5">>),
                    <<CR>>, <<"%", "0", "D">>),
            <<LF>>, <<"%", "0", "A">>)

\* a slip in the order: ':' and ',' escaped before the data pass
escape_property_colon_first(s) ==
    escape_data(replace(replace(s, <<":">>, <<"%", "3", "A">>),
                        <<",">>, <<"%", "2", "C">>))

escape_property(s) ==
    replace(replace(escape_data(s), <<":">>, <<"%", "3", "A">>),
            <<",">>, <<"%", "2", "C">>)

----------------------------------------------------------------------------
(* The receiving side's decoding, the inverse the encoder is written for.  *)

unescape_data(s) ==
    replace(replace(replace(s, <<"%", "0", "A">>, <<LF>>),
                    <<"%", "0", "D">>, <<CR>>),
            <<"%", "2", "5">>, <<"%">>)

unescape_property(s) ==
    unescape_data(replace(replace(s, <<"%", "2", "C">>, <<",">>),
                          <<"%", "3", "A">>, <<":">>))

\* one pass over the characters of s, each replaced by what `table` gives it
RECURSIVE SinglePass(_, _)
SinglePass(s, table) ==
    IF s = <<>> THEN <<>>
    ELSE (IF Head(s) \in DOMAIN table THEN table[Head(s)] ELSE <<Head(s)>>)
         \o SinglePass(Tail(s), table)

DataTable ==
    [c \in {"%", CR, LF} |->
        CASE c = "%" -> <<"%", "2", "5">>
          [] c = CR  -> <<"%", "0", "D">>
          [] c = LF  -> <<"%", "0", "A">>]

PropertyTable ==
    [c \in {"%", CR, LF, ":", ","} |->
        CASE c = "%" -> <<"%", "2", "5">>
          [] c = CR  -> <<"%", "0", "D">>
          [] c = LF  -> <<"%", "0", "A">>
          [] c = ":" -> <<"%", "3", "A">>
          [] c = "," -> <<"%", "2", "C">>]

----------------------------------------------------------------------------
(* The escaping functions called on their own.                             *)

InitEscape ==
    /\ pc = "call"
    /\ \E k \in 0..MaxLen : \E s \in [1..k -> EscChars] : opt = [s |-> s]
    /\ io = <<>>
    /\ out = <<>>
    /\ stdout = <<>>
    /\ exit_code = -1

CallEscapeData ==
    /\ pc = "call"
    /\ pc' = "escape_data"
    /\ out' = escape_data(opt.s)
    /\ UNCHANGED <<opt, io, stdout, exit_code>>

CallEscapeProperty ==
    /\ pc = "call"
    /\ pc' = "escape_property"
    /\ out' = escape_property(opt.s)
    /\ UNCHANGED <<opt, io, stdout, exit_code>>

NextEscape == CallEscapeData \/ CallEscapeProperty

SpecEscape == InitEscape /\ [][NextEscape]_vars

PreEscaped(s) ==
    \/ Contains(s, <<"%", "2", "5">>)
    \/ Contains(s, <<"%", "0", "D">>)
    \/ Contains(s, <<"%", "0", "A">>)

\* C1: a text holding none of the literal sequences %25, %0D, %0A is
\* recovered exactly by decoding its data-escaped form.
C1_DataRoundTrip ==
    (pc = "escape_data" /\ ~PreEscaped(opt.s)) => unescape_data(out) = opt.s

\* a text with '%', CR and LF together has been escaped and decodes to itself
C1_Witness ==
    /\ pc = "escape_data"
    /\ ~PreEscaped(opt.s)
    /\ {"%", CR, LF} \subseteq {opt.s[i] : i \in 1..Len(opt.s)}
    /\ out # opt.s
    /\ unescape_data(out) = opt.s

\* C5: the chained replacements are one pass over the original characters:
\* escape_data maps '%', CR, LF to %25, %0D, %0A and keeps the rest;
\* escape_property maps ':' and ',' to %3A and %2C as well; no '%' that a
\* replacement introduced is escaped again.
C5_SinglePass ==
    /\ pc = "escape_data" => out = SinglePass(opt.s, DataTable)
    /\ pc = "escape_property" => out = SinglePass(opt.s, PropertyTable)

\* a property value with '%', a line break and ':' or ',' has been escaped
C5_Witness ==
    /\ pc = "escape_property"
    /\ "%" \in {opt.s[i] : i \in 1..Len(opt.s)}
    /\ {CR, LF} \cap {opt.s[i] : i \in 1..Len(opt.s)} # {}
    /\ {":", ","} \cap {opt.s[i] : i \in 1..Len(opt.s)} # {}
    /\ Len(out) = Len(opt.s) + 2 * Len(opt.s)

----------------------------------------------------------------------------
(* issue_command.                                                          *)

\* total size of the arguments of one issue_command call: the characters of
\* the command, the keys, the values and the message, plus one per property
MaxSize == 4

\* total size of the text arguments of one invocation of main, counted alike
MaxArgSize == 3

\* characters of command names and property keys (never escaped by the code);
\* a key holds no '=': parse_key_val cuts the argument at its first '=', and
\* the keys main supplies itself are name, file, line and col
NameChars == {"n", ":", " ", ",", LF}

\* characters of property values and messages
ValChars == {"v", "%", ":", ",", "=", LF, CR}

\* property lists of total size at most b
RECURSIVE PropLists(_)
PropLists(b) ==
    {<<>>} \cup
    UNION { UNION { LET keys   == [1..lk -> NameChars]
                        values == [1..lv -> ValChars]
                        rest   == PropLists(b - 1 - lk - lv)
                    IN  { <<<<k, v>>>> \o r : k \in keys, v \in values, r \in rest }
                    : lv \in 0..(b - 1 - lk) }
            : lk \in 0..(b - 1) }

\* PropListsOfSize[b]: the property lists of total size at most b
PropListsOfSize ==
    [b \in 0..(IF MaxSize > MaxArgSize THEN MaxSize ELSE MaxArgSize) |-> PropLists(b)]

\* a slip: the pairs joined in reverse order
RECURSIVE join_reversed(_, _)
join_reversed(parts, sep) ==
    IF parts = <<>> THEN <<>>
    ELSE IF Len(parts) = 1 THEN Head(parts)
    ELSE join_reversed(Tail(parts), sep) \o sep \o Head(parts)

\* [String]::join
RECURSIVE join(_, _)
join(parts, sep) ==
    IF parts = <<>> THEN <<>>
    ELSE IF Len(parts) = 1 THEN Head(parts)
    ELSE Head(parts) \o sep \o join(Tail(parts), sep)

\* a slip: the property value escaped as data only
issue_command_data_escaped_props(command, message, properties) ==
    LET cmd_str0 == <<":", ":">> \o command
        joined_props ==
            join([i \in 1..Len(properties) |->
                     properties[i][1] \o <<"=">> \o escape_data(properties[i][2])],
                 <<",">>)
        cmd_str1 == IF properties # <<>>
                    THEN cmd_str0 \o <<" ">> \o joined_props
                    ELSE cmd_str0
    IN  cmd_str1 \o <<":", ":">> \o escape_data(message)

\* a slip: the message written as it is
issue_command_raw_message(command, message, properties) ==
    LET cmd_str0 == <<":", ":">> \o command
        joined_props ==
            join([i \in 1..Len(properties) |->
                     properties[i][1] \o <<"=">> \o escape_property(properties[i][2])],
                 <<",">>)
        cmd_str1 == IF properties # <<>>
                    THEN cmd_str0 \o <<" ">> \o joined_props
                    ELSE cmd_str0
    IN  cmd_str1 \o <<":", ":">> \o message

\* properties is a sequence of <<key, value>> pairs
issue_command(command, message, properties) ==
    LET cmd_str0 == <<":", ":">> \o command
        joined_props ==
            join([i \in 1..Len(properties) |->
                     properties[i][1] \o <<"=">> \o escape_property(properties[i][2])],
                 <<",">>)
        cmd_str1 == IF properties # <<>>
                    THEN cmd_str0 \o <<" ">> \o joined_props
                    ELSE cmd_str0
    IN  cmd_str1 \o <<":", ":">> \o escape_data(message)

InitEncoder ==
    /\ pc = "call"
    /\ \E lc \in 0..MaxSize : \E lm \in 0..(MaxSize - lc) :
          \E c \in [1..lc -> NameChars], m \in [1..lm -> ValChars],
             p \in PropListsOfSize[MaxSize - lc - lm] :
             opt = [command |-> c, message |-> m, properties |-> p]
    /\ io = <<>>
    /\ out = <<>>
    /\ stdout = <<>>
    /\ exit_code = -1

CallIssueCommand ==
    /\ pc = "call"
    /\ pc' = "issue_command"
    /\ out' = issue_command(opt.command, opt.message, opt.properties)
    /\ UNCHANGED <<opt, io, stdout, exit_code>>

NextEncoder == CallIssueCommand

SpecEncoder == InitEncoder /\ [][NextEncoder]_vars

(* The decoding the line is written for.                                   *)

\* the first position of pat in s, 0 when there is none
FirstIndex(s, pat) ==
    IF Contains(s, pat)
    THEN CHOOSE i \in 1..Len(s) :
            MatchesAt(s, i, pat) /\ \A j \in 1..(i - 1) : ~MatchesAt(s, j, pat)
    ELSE 0

RECURSIVE SplitAt(_, _)
SplitAt(s, c) ==
    LET i == FirstIndex(s, <<c>>)
    IN  IF i = 0 THEN <<s>>
        ELSE <<SubSeq(s, 1, i - 1)>> \o SplitAt(SubSeq(s, i + 1, Len(s)), c)

\* the line split at the first "::" after the leading "::", the header at
\* the first space, the property block at each ',', each pair at the first '='
DecodeLine(line) ==
    LET body   == SubSeq(line, 3, Len(line))
        i      == FirstIndex(body, <<":", ":">>)
        header == SubSeq(body, 1, i - 1)
        sp     == FirstIndex(header, <<" ">>)
        pairs  == IF sp = 0 THEN <<>>
                  ELSE SplitAt(SubSeq(header, sp + 1, Len(header)), ",")
        value(p) == LET e == FirstIndex(p, <<"=">>)
                    IN  IF e = 0 THEN <<>>
                        ELSE unescape_property(SubSeq(p, e + 1, Len(p)))
    IN  [command |-> IF sp = 0 THEN header ELSE SubSeq(header, 1, sp - 1),
         values  |-> [k \in 1..Len(pairs) |-> value(pairs[k])],
         message |-> unescape_data(SubSeq(body, i + 2, Len(body)))]

Chars(s) == {s[i] : i \in 1..Len(s)}
Keys(properties) == {properties[i][1] : i \in 1..Len(properties)}
Values(properties) == [i \in 1..Len(properties) |-> properties[i][2]]

\* C2 as stated: for any command name, property list and message, decoding
\* the line gives back the property values, in order, and the message.
C2_RoundTripAnyInput ==
    pc = "issue_command" =>
        /\ DecodeLine(out).values = Values(opt.properties)
        /\ DecodeLine(out).message = opt.message

\* C2, amended: when the command name holds no ':' and no space and no key
\* holds ':' or ',', decoding the line gives back the property values,
\* in order, and the message.
C2_RoundTrip ==
    (/\ pc = "issue_command"
     /\ Chars(opt.command) \cap {":", " "} = {}
     /\ \A k \in Keys(opt.properties) : Chars(k) \cap {":", ","} = {})
    => /\ DecodeLine(out).values = Values(opt.properties)
       /\ DecodeLine(out).message = opt.message

\* two properties whose values hold the separators, and a message with a
\* line break, decoded back
C2_Witness ==
    /\ pc = "issue_command"
    /\ Chars(opt.command) \cap {":", " "} = {}
    /\ \A k \in Keys(opt.properties) : Chars(k) \cap {":", ","} = {}
    /\ Len(opt.properties) = 2
    /\ opt.properties[1][2] = <<",">>
    /\ opt.properties[2][2] = <<":">>
    /\ DecodeLine(out).values = <<<<",">>, <<":">>>>

\* the property block of C3, written pair by pair from position i on
RECURSIVE PropertyBlock(_, _)
PropertyBlock(properties, i) ==
    properties[i][1] \o <<"=">> \o escape_property(properties[i][2])
    \o (IF i < Len(properties)
        THEN <<",">> \o PropertyBlock(properties, i + 1)
        ELSE <<>>)

\* C3: the line is "::" command "::" escape_data(message) when there is no
\* property, and "::" command " " key=escape_property(value),... "::"
\* escape_data(message) otherwise, the pairs in the order supplied, the keys
\* and the command name as they are.
C3_Format ==
    pc = "issue_command" =>
        IF opt.properties = <<>>
        THEN out = <<":", ":">> \o opt.command \o <<":", ":">> \o escape_data(opt.message)
        ELSE out = <<":", ":">> \o opt.command \o <<" ">>
                   \o PropertyBlock(opt.properties, 1)
                   \o <<":", ":">> \o escape_data(opt.message)

\* a line with two different properties has been produced
C3_Witness ==
    /\ pc = "issue_command"
    /\ Len(opt.properties) = 2
    /\ opt.properties[1] # opt.properties[2]
    /\ opt.command # <<>>
    /\ Len(out) >= 10

\* C4 as stated: for every command name, property list and message the
\* line holds no line feed and no carriage return.
C4_OneLineAnyInput ==
    pc = "issue_command" => Chars(out) \cap {LF, CR} = {}

\* C4, amended: when neither the command name nor a key holds a line feed or
\* a carriage return, the line holds none, whatever the values and message.
C4_OneLine ==
    (/\ pc = "issue_command"
     /\ Chars(opt.command) \cap {LF, CR} = {}
     /\ \A k \in Keys(opt.properties) : Chars(k) \cap {LF, CR} = {})
    => Chars(out) \cap {LF, CR} = {}

\* a message and a property value with line breaks have been encoded
C4_Witness ==
    /\ pc = "issue_command"
    /\ Chars(opt.command) \cap {LF, CR} = {}
    /\ \A k \in Keys(opt.properties) : Chars(k) \cap {LF, CR} = {}
    /\ LF \in Chars(opt.message)
    /\ Len(opt.properties) = 1
    /\ CR \in Chars(opt.properties[1][2])
    /\ Chars(out) \cap {LF, CR} = {}

----------------------------------------------------------------------------
(* The driver: main.                                                       *)

\* longest value an environment variable holds
MaxEnvLen == 3

\* characters of the text arguments
ArgChars == {"a", "B", " ", LF}

\* characters of the values of environment variables
EnvChars == {"v", " ", LF}

\* the line and column numbers given on the command line
Numbers == {0, 10, 205}

SET_ENV == <<"s", "e", "t", "-", "e", "n", "v">>
SET_OUTPUT == <<"s", "e", "t", "-", "o", "u", "t", "p", "u", "t">>
ADD_PATH == <<"a", "d", "d", "-", "p", "a", "t", "h">>
ADD_MASK == <<"a", "d", "d", "-", "m", "a", "s", "k">>
DEBUG == <<"d", "e", "b", "u", "g">>
WARNING == <<"w", "a", "r", "n", "i", "n", "g">>
ERROR == <<"e", "r", "r", "o", "r">>
STOP_COMMANDS == <<"s", "t", "o", "p", "-", "c", "o", "m", "m", "a", "n", "d", "s">>
GROUP == <<"g", "r", "o", "u", "p">>
ENDGROUP == <<"e", "n", "d", "g", "r", "o", "u", "p">>
SAVE_STATE == <<"s", "a", "v", "e", "-", "s", "t", "a", "t", "e">>
POST_COMMENT == <<"p", "o", "s", "t", "-", "c", "o", "m", "m", "e", "n", "t">>
SUCCESS == <<"s", "u", "c", "c", "e", "s", "s">>
NAME == <<"n", "a", "m", "e">>
FILE == <<"f", "i", "l", "e">>
LINE == <<"l", "i", "n", "e">>
COL == <<"c", "o", "l">>
INPUT_ == <<"I", "N", "P", "U", "T", "_">>
STATE_ == <<"S", "T", "A", "T", "E", "_">>
RUNNER_DEBUG == <<"R", "U", "N", "N", "E", "R", "_", "D", "E", "B", "U", "G">>
GITHUB_EVENT_PATH == <<"G", "I", "T", "H", "U", "B", "_", "E", "V", "E", "N", "T", "_", "P", "A", "T", "H">>
GITHUB_TOKEN == <<"G", "I", "T", "H", "U", "B", "_", "T", "O", "K", "E", "N">>

\* Option and Result values
None == [some |-> FALSE]
Some(v) == [some |-> TRUE, val |-> v]
Ok(v) == [ok |-> TRUE, val |-> v]
Err == [ok |-> FALSE]

\* process exit statuses: main returned Ok(()), main returned Err, a panic
ExitSuccess == 0
ExitFailure == 1
ExitPanic == 101

\* what std::env::var can answer: the value, or Err when the variable is unset
EnvResults == {Err} \cup {Ok(v) : v \in Texts(EnvChars, MaxEnvLen)}

\* a job-event descriptor, and the path of the file that holds one
EVENT_JSON == <<"{", "\"", "p", "u", "l", "l", "_", "r", "e", "q", "u", "e", "s", "t", "\"", ":", "{", "\"", "c", "o", "m", "m", "e", "n", "t", "s", "_", "u", "r", "l", "\"", ":", "\"", "h", "t", "t", "p", "s", ":", "/", "/", "h", "/", "c", "\"", "}", "}">>
COMMENTS_URL == <<"h", "t", "t", "p", "s", ":", "/", "/", "h", "/", "c">>
EMPTY_JSON == <<"{", "}">>
EVENT_FILE == <<"/", "w", "/", "e", "v", "e", "n", "t", ".", "j", "s", "o", "n">>

\* what the lookup of GITHUB_EVENT_PATH can answer: unset, the path of the
\* descriptor file (what the runner sets), or the text of a descriptor
EventPathResults == {Err, Ok(EVENT_FILE), Ok(EVENT_JSON), Ok(EMPTY_JSON)}

\* what std::fs::canonicalize can answer: Err, or an absolute path; "<FF>" is
\* a byte of a file name that is not valid UTF-8
CanonicalPaths == {<<"/">>, <<"/", "a">>, <<"/", "a", LF, "%">>, <<"/", "<FF>">>}
CanonicalizeResults == {Err} \cup {Ok(p) : p \in CanonicalPaths}

\* the secret names given with --token; GITHUB_TOKEN is the default
Secrets == {GITHUB_TOKEN, <<"P", "A", "T">>}

\* parse_key_val: the argument cut at its first '='
parse_key_val(s) ==
    LET pos == FirstIndex(s, <<"=">>)
    IN  IF pos = 0 THEN Err
        ELSE Ok(<<SubSeq(s, 1, pos - 1), SubSeq(s, pos + 1, Len(s))>>)

\* format!("{}", n) of a u64
RECURSIVE to_string(_)
to_string(n) ==
    LET digit == <<"0", "1", "2", "3", "4", "5", "6", "7", "8", "9">>[(n % 10) + 1]
    IN  IF n < 10 THEN <<digit>> ELSE to_string(n \div 10) \o <<digit>>

LowerCase == <<"a", "b", "c", "d", "e", "f", "g", "h", "i", "j", "k", "l", "m",
               "n", "o", "p", "q", "r", "s", "t", "u", "v", "w", "x", "y", "z">>
UpperCase == <<"A", "B", "C", "D", "E", "F", "G", "H", "I", "J", "K", "L", "M",
               "N", "O", "P", "Q", "R", "S", "T", "U", "V", "W", "X", "Y", "Z">>

\* str::to_ascii_uppercase
to_ascii_uppercase(s) ==
    [i \in 1..Len(s) |->
        IF \E k \in 1..26 : LowerCase[k] = s[i]
        THEN UpperCase[CHOOSE k \in 1..26 : LowerCase[k] = s[i]]
        ELSE s[i]]

\* char::is_whitespace, on the characters used here
WhiteSpace == {" ", TAB, LF, CR}

RECURSIVE trim_start(_)
trim_start(s) ==
    IF s # <<>> /\ Head(s) \in WhiteSpace THEN trim_start(Tail(s)) ELSE s

RECURSIVE trim_end(_)
trim_end(s) ==
    IF s # <<>> /\ s[Len(s)] \in WhiteSpace
    THEN trim_end(SubSeq(s, 1, Len(s) - 1)) ELSE s

\* str::trim
trim(s) == trim_end(trim_start(s))

\* Path::to_string_lossy: an invalid byte becomes U+FFFD
to_string_lossy(p) ==
    [i \in 1..Len(p) |-> IF p[i] = "<FF>" THEN "<U+FFFD>" ELSE p[i]]

\* serde_json::from_str on the texts of EventPathResults: the two documents
\* parse, a path does not
from_str(s) ==
    IF s = EVENT_JSON
    THEN Ok([pull_request |-> [comments_url |-> COMMENTS_URL]])
    ELSE IF s = EMPTY_JSON THEN Ok([x \in {} |-> 0])
    ELSE Err

\* v["pull_request"]["comments_url"].as_str()
comments_url(v) ==
    IF "pull_request" \in DOMAIN v /\ "comments_url" \in DOMAIN v.pull_request
    THEN Some(v.pull_request.comments_url)
    ELSE None

unwrap_or(o, default) == IF o.some THEN o.val ELSE default

\* a slip: col pushed before line
log_command_col_first(command, message, file, line, col) ==
    LET p0 == <<>>
        p1 == IF file.some THEN Append(p0, <<FILE, file.val>>) ELSE p0
        p2 == IF col.some THEN Append(p1, <<COL, to_string(col.val)>>) ELSE p1
        p3 == IF line.some THEN Append(p2, <<LINE, to_string(line.val)>>) ELSE p2
    IN  issue_command(command, message, p3)

log_command(command, message, file, line, col) ==
    LET p0 == <<>>
        p1 == IF file.some THEN Append(p0, <<FILE, file.val>>) ELSE p0
        p2 == IF line.some THEN Append(p1, <<LINE, to_string(line.val)>>) ELSE p1
        p3 == IF col.some THEN Append(p2, <<COL, to_string(col.val)>>) ELSE p2
    IN  issue_command(command, message, p3)

issue(command, message) == issue_command(command, message, <<>>)

\* a slip: the name upper-cased with its spaces left in
input_key_spaces_kept(name) == INPUT_ \o to_ascii_uppercase(name)

\* the environment key get-input reads
input_key(name) == INPUT_ \o to_ascii_uppercase(replace(name, <<" ">>, <<"_">>))

\* the calls main makes to the outside, as entries of io
EnvVar(key, r) == [call |-> "env::var", arg |-> key, result |-> r]
Canonicalize(path, r) == [call |-> "fs::canonicalize", arg |-> path, result |-> r]
Send(url, token, body, r) ==
    [call |-> "send", arg |-> url, bearer_auth |-> token, body |-> body, result |-> r]

Init ==
    /\ pc = "start"
    /\ opt = [command |-> "unparsed"]
    /\ io = <<>>
    /\ out = <<>>
    /\ stdout = <<>>
    /\ exit_code = -1

\* a slip: the line written without its newline
println_without_newline(o, calls, text) ==
    /\ pc' = "exit"
    /\ opt' = o
    /\ io' = calls
    /\ out' = text
    /\ stdout' = stdout \o text
    /\ exit_code' = ExitSuccess

\* the match arm gave `out`: println!("{}", out); Ok(())
println(o, calls, text) ==
    /\ pc' = "exit"
    /\ opt' = o
    /\ io' = calls
    /\ out' = text
    /\ stdout' = stdout \o text \o <<LF>>
    /\ exit_code' = ExitSuccess

\* a slip: the failure swallowed, an empty line written
fatal_swallowed(o, calls, code) ==
    /\ pc' = "exit"
    /\ opt' = o
    /\ io' = calls
    /\ out' = <<>>
    /\ stdout' = stdout \o <<LF>>
    /\ exit_code' = ExitSuccess

\* the match arm left main early: `?` on an Err (code ExitFailure) or panic!
fatal(o, calls, code) ==
    /\ pc' = "exit"
    /\ opt' = o
    /\ io' = calls
    /\ exit_code' = code
    /\ UNCHANGED <<out, stdout>>

\* the properties arrive as key=value arguments; message is optional
IssueCommand ==
    /\ pc = "start"
    /\ \E lc \in 0..MaxArgSize : \E lm \in 0..(MaxArgSize - lc) :
          \E c \in [1..lc -> NameChars], m \in [1..lm -> ValChars],
             p \in PropListsOfSize[MaxArgSize - lc - lm] :
             \E message \in {Some(m)} \cup (IF m = <<>> THEN {None} ELSE {}) :
                LET o == [command |-> "IssueCommand", name |-> c, message |-> message,
                          props |-> [i \in 1..Len(p) |-> p[i][1] \o <<"=">> \o p[i][2]]]
                    properties == [i \in 1..Len(o.props) |-> parse_key_val(o.props[i]).val]
                IN  IF o.message.some
                    THEN println(o, io, issue_command(o.name, o.message.val, properties))
                    ELSE println(o, io, issue_command(o.name, <<>>, properties))

SetEnv ==
    /\ pc = "start"
    /\ \E l1 \in 0..MaxArgSize : \E l2 \in 0..(MaxArgSize - l1) :
       \E a \in [1..l1 -> ArgChars] \X [1..l2 -> ArgChars] :
          println([command |-> "SetEnv", key |-> a[1], value |-> a[2]], io,
                  issue_command(SET_ENV, a[2], <<<<NAME, a[1]>>>>))

Export ==
    /\ pc = "start"
    /\ \E l1 \in 0..MaxArgSize : \E a \in {<<s>> : s \in [1..l1 -> ArgChars]}, r \in EnvResults :
          LET o == [command |-> "Export", key |-> a[1]]
              calls == Append(io, EnvVar(a[1], r))
          IN  IF r.ok
              THEN println(o, calls, issue_command(SET_ENV, r.val, <<<<NAME, a[1]>>>>))
              ELSE fatal(o, calls, ExitFailure)

SetOutput ==
    /\ pc = "start"
    /\ \E l1 \in 0..MaxArgSize : \E l2 \in 0..(MaxArgSize - l1) :
       \E a \in [1..l1 -> ArgChars] \X [1..l2 -> ArgChars] :
          println([command |-> "SetOutput", name |-> a[1], value |-> a[2]], io,
                  issue_command(SET_OUTPUT, a[2], <<<<NAME, a[1]>>>>))

AddPath ==
    /\ pc = "start"
    /\ \E l1 \in 0..MaxArgSize : \E a \in {<<s>> : s \in [1..l1 -> ArgChars]}, r \in CanonicalizeResults :
          LET o == [command |-> "AddPath", path |-> a[1]]
              calls == Append(io, Canonicalize(a[1], r))
          IN  IF r.ok
              THEN println(o, calls, issue(ADD_PATH, to_string_lossy(r.val)))
              ELSE fatal(o, calls, ExitFailure)

AddMask ==
    /\ pc = "start"
    /\ \E l1 \in 0..MaxArgSize : \E a \in {<<s>> : s \in [1..l1 -> ArgChars]} :
          println([command |-> "AddMask", value |-> a[1]], io, issue(ADD_MASK, a[1]))

GetInput ==
    /\ pc = "start"
    /\ \E l1 \in 0..MaxArgSize : \E a \in {<<s>> : s \in [1..l1 -> ArgChars]}, required \in BOOLEAN, r \in EnvResults :
          LET o == [command |-> "GetInput", name |-> a[1], required |-> required]
              key == input_key(a[1])
              calls == Append(io, EnvVar(key, r))
          IN  IF r.ok THEN println(o, calls, trim(r.val))
              ELSE IF required THEN fatal(o, calls, ExitPanic)
              ELSE println(o, calls, <<>>)

IsDebug ==
    /\ pc = "start"
    /\ \E r \in EnvResults :
          LET o == [command |-> "IsDebug"]
              calls == Append(io, EnvVar(RUNNER_DEBUG, r))
          IN  IF r.ok THEN println(o, calls, r.val)
              ELSE fatal(o, calls, ExitFailure)

\* an optional line or column number
OptionalNumbers == {None} \cup {Some(n) : n \in Numbers}

\* an optional file name of length at most b
OptionalFiles(b) == {None} \cup {Some(f) : f \in Texts(ArgChars, b)}

\* the arguments of debug, warning and error
LogArgs(command, message, file, line, col) ==
    [command |-> command, message |-> message, file |-> file, line |-> line, col |-> col]

Debug ==
    /\ pc = "start"
    /\ \E l1 \in 0..MaxArgSize : \E message \in [1..l1 -> ArgChars] :
       \E file \in OptionalFiles(MaxArgSize - l1), line \in OptionalNumbers,
          col \in OptionalNumbers :
          println(LogArgs("Debug", message, file, line, col), io,
                  log_command(DEBUG, message, file, line, col))

Warning ==
    /\ pc = "start"
    /\ \E l1 \in 0..MaxArgSize : \E message \in [1..l1 -> ArgChars] :
       \E file \in OptionalFiles(MaxArgSize - l1), line \in OptionalNumbers,
          col \in OptionalNumbers :
          println(LogArgs("Warning", message, file, line, col), io,
                  log_command(WARNING, message, file, line, col))

Error ==
    /\ pc = "start"
    /\ \E l1 \in 0..MaxArgSize : \E message \in [1..l1 -> ArgChars] :
       \E file \in OptionalFiles(MaxArgSize - l1), line \in OptionalNumbers,
          col \in OptionalNumbers :
          println(LogArgs("Error", message, file, line, col), io,
                  log_command(ERROR, message, file, line, col))

StopCommands ==
    /\ pc = "start"
    /\ \E l1 \in 0..MaxArgSize : \E a \in {<<s>> : s \in [1..l1 -> ArgChars]} :
          println([command |-> "StopCommands", endtoken |-> a[1]], io,
                  issue(STOP_COMMANDS, a[1]))

StartGroup ==
    /\ pc = "start"
    /\ \E l1 \in 0..MaxArgSize : \E a \in {<<s>> : s \in [1..l1 -> ArgChars]} :
          println([command |-> "StartGroup", name |-> a[1]], io, issue(GROUP, a[1]))

EndGroup ==
    /\ pc = "start"
    /\ println([command |-> "EndGroup"], io, issue(ENDGROUP, <<>>))

SaveState ==
    /\ pc = "start"
    /\ \E l1 \in 0..MaxArgSize : \E l2 \in 0..(MaxArgSize - l1) :
       \E a \in [1..l1 -> ArgChars] \X [1..l2 -> ArgChars] :
          println([command |-> "SaveState", name |-> a[1], value |-> a[2]], io,
                  issue_command(SAVE_STATE, a[2], <<<<NAME, a[1]>>>>))

GetState ==
    /\ pc = "start"
    /\ \E l1 \in 0..MaxArgSize : \E a \in {<<s>> : s \in [1..l1 -> ArgChars]}, r \in EnvResults :
          LET o == [command |-> "GetState", name |-> a[1]]
              calls == Append(io, EnvVar(STATE_ \o a[1], r))
          IN  IF r.ok THEN println(o, calls, r.val)
              ELSE println(o, calls, <<>>)

\* whether the request goes through: never to a URL that does not parse (the
\* empty one), else as the network decides
SendResults(url) == IF url = <<>> THEN {Err} ELSE {Err, Ok("response")}

PostComment ==
    /\ pc = "start"
    /\ \E l1 \in 0..MaxArgSize : \E a \in {<<s>> : s \in [1..l1 -> ArgChars]}, secret \in Secrets,
          r \in EventPathResults :
          LET o == [command |-> "PostComment", message |-> a[1], secret |-> secret]
              calls1 == Append(io, EnvVar(GITHUB_EVENT_PATH, r))
          IN  IF ~r.ok THEN fatal(o, calls1, ExitFailure)
              ELSE LET v == from_str(r.val)
                   IN  IF ~v.ok THEN fatal(o, calls1, ExitFailure)
                       ELSE LET uri == comments_url(v.val)
                                url == unwrap_or(uri, <<>>)
                            IN  \E res \in SendResults(url) :
                                   LET calls2 == Append(calls1, Send(url, secret, a[1], res))
                                   IN  IF ~res.ok THEN fatal(o, calls2, ExitFailure)
                                       ELSE println(o, calls2, issue(POST_COMMENT, SUCCESS))

Next ==
    \/ GetState
    \/ IssueCommand
    \/ SetEnv
    \/ Export
    \/ SetOutput
    \/ AddPath
    \/ AddMask
    \/ GetInput
    \/ IsDebug
    \/ Debug
    \/ Warning
    \/ Error
    \/ StopCommands
    \/ StartGroup
    \/ EndGroup
    \/ SaveState
    \/ PostComment

Spec == Init /\ [][Next]_vars

----------------------------------------------------------------------------
(* The claims about main.                                                  *)

Exited == pc = "exit"

\* the fatal conditions: export of an unset variable, add-path on a path
\* that does not resolve, get-input --required of an unset variable,
\* is-debug with RUNNER_DEBUG unset, a failing step of post-comment (the
\* variable unset, the descriptor not parsed, no comments URL, the request
\* failed)
FatalCondition ==
    \/ opt.command \in {"Export", "AddPath", "IsDebug"} /\ ~io[1].result.ok
    \/ opt.command = "GetInput" /\ opt.required /\ ~io[1].result.ok
    \/ /\ opt.command = "PostComment"
       /\ \/ ~io[1].result.ok
          \/ ~from_str(io[1].result.val).ok
          \/ ~comments_url(from_str(io[1].result.val).val).some
          \/ \E i \in 1..Len(io) : io[i].call = "send" /\ ~io[i].result.ok

IsTrimOf(t, s) ==
    \E i \in 0..Len(s), j \in 0..Len(s) :
        /\ i + j <= Len(s)
        /\ t = SubSeq(s, i + 1, Len(s) - j)
        /\ \A k \in 1..i : s[k] \in WhiteSpace
        /\ \A k \in (Len(s) - j + 1)..Len(s) : s[k] \in WhiteSpace
        /\ t # <<>> => t[1] \notin WhiteSpace /\ t[Len(t)] \notin WhiteSpace

\* C7: get-input of name n reads INPUT_ followed by n with each space
\* replaced by '_' and upper-cased; the variable set, its trimmed value is
\* the output; unset and required, the invocation is fatal; unset and not
\* required, the output is the empty text and the invocation succeeds.
C7_GetInput ==
    (Exited /\ opt.command = "GetInput") =>
        /\ Len(io) = 1
        /\ io[1].call = "env::var"
        /\ io[1].arg = INPUT_ \o
              to_ascii_uppercase([i \in 1..Len(opt.name) |->
                  IF opt.name[i] = " " THEN "_" ELSE opt.name[i]])
        /\ IF io[1].result.ok
           THEN /\ exit_code = 0
                /\ \E t \in Texts(EnvChars, Len(io[1].result.val)) :
                      IsTrimOf(t, io[1].result.val) /\ stdout = t \o <<LF>>
           ELSE IF opt.required
                THEN exit_code # 0 /\ stdout = <<>>
                ELSE exit_code = 0 /\ stdout = <<LF>>

\* a name with a space and a lower-case letter, a value with whitespace
\* around it
C7_Witness ==
    /\ Exited
    /\ opt.command = "GetInput"
    /\ opt.name = <<"a", " ", "B">>
    /\ io[1].arg = <<"I", "N", "P", "U", "T", "_", "A", "_", "B">>
    /\ io[1].result.ok
    /\ io[1].result.val = <<" ", "v", LF>>
    /\ stdout = <<"v", LF>>

\* C8 as stated: every successful invocation writes one line: the text
\* before the final newline holds no line feed.
C8_OneLineAlways ==
    (Exited /\ exit_code = 0) =>
        /\ stdout # <<>>
        /\ stdout[Len(stdout)] = LF
        /\ \A i \in 1..(Len(stdout) - 1) : stdout[i] # LF

\* the key of a key=value argument
KeyOf(arg) == SubSeq(arg, 1, FirstIndex(arg, <<"=">>) - 1)

\* C8, amended: every successful invocation writes its result and one
\* newline after it; the result holds a line feed only when it is the value
\* get-input, get-state or is-debug read and that value holds one, or when
\* it is the line of issue-command and the command name or a key holds one.
C8_OneLine ==
    (Exited /\ exit_code = 0) =>
        /\ stdout = out \o <<LF>>
        /\ LF \in Chars(out) =>
              \/ /\ opt.command \in {"GetInput", "GetState", "IsDebug"}
                 /\ io[1].result.ok
                 /\ LF \in Chars(io[1].result.val)
              \/ /\ opt.command = "IssueCommand"
                 /\ \/ LF \in Chars(opt.name)
                    \/ \E i \in 1..Len(opt.props) : LF \in Chars(KeyOf(opt.props[i]))

\* set-env of a name and a value that both hold a line feed wrote one line
C8_Witness ==
    /\ Exited
    /\ opt.command = "SetEnv"
    /\ LF \in Chars(opt.key)
    /\ LF \in Chars(opt.value)
    /\ stdout[Len(stdout)] = LF
    /\ \A i \in 1..(Len(stdout) - 1) : stdout[i] # LF

\* C9: post-comment sends its request to the comments URL found in the file
\* that GITHUB_EVENT_PATH names, with the value of the variable that the
\* secret argument names as its token, and writes the confirmation line only
\* after the request succeeded.
C9_PostComment ==
    (Exited /\ opt.command = "PostComment") =>
        /\ \A i \in 1..Len(io) : (io[i].call = "send" /\ io[i].result.ok) =>
              /\ \E j \in 1..(i - 1), k \in 1..(i - 1) :
                    /\ io[j].call = "env::var"
                    /\ io[j].arg = GITHUB_EVENT_PATH
                    /\ io[j].result.ok
                    /\ io[k].call = "fs::read"
                    /\ io[k].arg = io[j].result.val
                    /\ io[k].result.ok
                    /\ Some(io[i].arg) = comments_url(from_str(io[k].result.val).val)
              /\ \E j \in 1..(i - 1) :
                    /\ io[j].call = "env::var"
                    /\ io[j].arg = opt.secret
                    /\ io[j].result.ok
                    /\ io[i].bearer_auth = io[j].result.val
        /\ stdout # <<>> =>
              /\ stdout = <<":", ":">> \o POST_COMMENT \o <<":", ":">> \o SUCCESS \o <<LF>>
              /\ \E i \in 1..Len(io) : io[i].call = "send" /\ io[i].result.ok

\* the value of a text of decimal digits
RECURSIVE DecimalValue(_)
DecimalValue(t) ==
    IF t = <<>> THEN 0
    ELSE 10 * DecimalValue(SubSeq(t, 1, Len(t) - 1))
         + (CHOOSE d \in 0..9 :
               <<"0", "1", "2", "3", "4", "5", "6", "7", "8", "9">>[d + 1] = t[Len(t)])

IsDecimalOf(t, n) ==
    /\ t # <<>>
    /\ Chars(t) \subseteq {"0", "1", "2", "3", "4", "5", "6", "7", "8", "9"}
    /\ Len(t) > 1 => t[1] # "0"
    /\ DecimalValue(t) = n

IsGiven(e) == e[2].some

\* C10: debug, warning and error write issue_command(<directive>, message,
\* P), P holding the keys whose value was given, in the order file, line,
\* col, line and col in decimal; with none given there is no property block.
C10_LogCommand ==
    (Exited /\ opt.command \in {"Debug", "Warning", "Error"}) =>
        LET name  == CASE opt.command = "Debug" -> DEBUG
                       [] opt.command = "Warning" -> WARNING
                       [] opt.command = "Error" -> ERROR
            given == SelectSeq(<<<<FILE, opt.file>>, <<LINE, opt.line>>, <<COL, opt.col>>>>,
                               IsGiven)
            P     == [i \in 1..Len(given) |->
                         <<given[i][1],
                           IF given[i][1] = FILE THEN given[i][2].val
                           ELSE to_string(given[i][2].val)>>]
        IN  /\ out = issue_command(name, opt.message, P)
            /\ stdout = out \o <<LF>>
            /\ \A i \in 1..Len(given) :
                  given[i][1] # FILE => IsDecimalOf(P[i][2], given[i][2].val)
            /\ P = <<>> =>
                  out = <<":", ":">> \o name \o <<":", ":">> \o escape_data(opt.message)

\* a warning with a line and a column and no file
C10_Witness ==
    /\ Exited
    /\ opt.command = "Warning"
    /\ ~opt.file.some
    /\ opt.line = Some(10)
    /\ opt.col = Some(205)
    /\ opt.message = <<"a">>
    /\ out = <<":", ":">> \o WARNING \o <<" ">> \o LINE \o <<"=", "1", "0", ",">>
             \o COL \o <<"=", "2", "0", "5", ":", ":", "a">>

====
